---- MODULE Spec2Model ----
(***************************************************************************)
(* A model of xbob.db.scface.query.Database, the read-only query layer    *)
(* over the SCface catalogue.                                              *)
(*                                                                         *)
(* The Database object holds one field, `session`.  Every public method   *)
(* is a synchronous read of the catalogue; the methods are modelled as    *)
(* operators computing the returned value (or the raised error) and as    *)
(* actions applying them to a call drawn from bounded sets.                *)
(*                                                                         *)
(* Python values are encoded as tagged records so that the truthiness     *)
(* test and the tuple/list test of __check_validity__ can be modelled:    *)
(*   None  -> [tag |-> "None"]        a str  -> [tag |-> "str", v |-> s]   *)
(*   an int -> [tag |-> "int", v |-> n]                                    *)
(*   a tuple or list -> [tag |-> "list", v |-> <<...>>]                    *)
(*                                                                         *)
(* A returned list whose order Python leaves unspecified (list(set(...))) *)
(* is modelled as a bag: a list up to the order of its elements.          *)
(***************************************************************************)
EXTENDS Bags, FiniteSets, Integers, Sequences, TLC

VARIABLES
  catalogue,     \* the populated store: clients, files, protocols, subworlds
  store_exists,  \* os.path.exists(SQLITE_FILE)
  session,       \* Database.session: "None" or "open"
  ctor_valid,    \* history: is_valid() right after __init__
  call,          \* the method call under consideration, with its arguments
  ret            \* its outcome: pending, a returned value or a raised error

vars == <<catalogue, store_exists, session, ctor_valid, call, ret>>

-----------------------------------------------------------------------------
(* Bounds of the model *)

NClients == 3
NFiles == 5

-----------------------------------------------------------------------------
(* Python values *)

PyNone == [tag |-> "None"]
PyStr(s) == [tag |-> "str", v |-> s]
PyInt(n) == [tag |-> "int", v |-> n]
PyList(s) == [tag |-> "list", v |-> s]

Range(s) == {s[i] : i \in DOMAIN s}

\* Python truthiness: `not l` holds of None, 0, '' and the empty tuple/list
Falsy(l) ==
  \/ l.tag = "None"
  \/ l.tag = "int" /\ l.v = 0
  \/ l.tag = "str" /\ l.v = ""
  \/ l.tag = "list" /\ l.v = <<>>

-----------------------------------------------------------------------------
(* The catalogue: the vocabulary and the tables of the store *)

group_choices == <<"dev", "eval", "world">>
gender_choices == <<"m", "f">>
purpose_choices == <<"train", "enrol", "probe">>
ProtocolNames == <<"combined", "close", "medium", "far">>
SubworldNames == <<"onethird", "twothirds">>
Cameras == <<"cam1", "cam2", "cam3", "cam4", "cam5", "frontal">>

ClientIds == 1..NClients
FileIds == 1..NFiles

\* the camera-distance protocol a capture distance belongs to
DistanceProtocol(d) == ProtocolNames[2 + ((d - 1) % 3)]

\* The rows of table File for a given assignment of clients to groups: file
\* f belongs to client ((f-1) mod NClients)+1; the first file of a client is
\* its frontal mugshot, the later ones surveillance captures.  A frontal
\* file serves every protocol, a capture serves `combined` and the protocol
\* of its distance; under each protocol it is linked to the ProtocolPurpose
\* of its client's group: train for world, enrol (frontal) or probe for
\* dev and eval.
FileRow(f, sgroup) ==
  LET owner == ((f - 1) % NClients) + 1
      round == (f - 1) \div NClients
      cam == IF round = 0 THEN "frontal" ELSE Cameras[((round - 1) % 5) + 1]
      g == sgroup[owner]
      purpose == IF g = "world" THEN "train"
                 ELSE IF round = 0 THEN "enrol" ELSE "probe"
      protos == IF round = 0 THEN Range(ProtocolNames)
                ELSE {"combined", DistanceProtocol(round)}
  IN [id |-> f, client_id |-> owner, camera |-> cam, distance |-> round,
      path |-> "stem" \o ToString(f),
      pps |-> {[protocol |-> p, sgroup |-> g, purpose |-> purpose] : p \in protos}]

ClientRow(c, sgroup, sub) ==
  [id |-> c, sgroup |-> sgroup[c],
   gender |-> gender_choices[1 + (c % 2)],
   birthyear |-> 1970 + ((c \div 2) % 2),
   subworld |-> sub[c]]

\* The catalogues of the model: every assignment of the clients to the
\* three groups, and of the world clients to the subworlds.  The subworlds
\* partition the world clients; a dev or eval client has none.
Catalogues ==
  {[clients |-> [c \in ClientIds |-> ClientRow(c, sgroup, sub)],
    files |-> [f \in FileIds |-> FileRow(f, sgroup)],
    protocols |-> ProtocolNames,
    subworlds |-> SubworldNames] :
     <<sgroup, sub>> \in
       {x \in [ClientIds -> Range(group_choices)]
                \X [ClientIds -> Range(SubworldNames) \cup {"none"}] :
          \A c \in ClientIds : x[1][c] = "world" <=> x[2][c] # "none"}}

-----------------------------------------------------------------------------
(* Outcomes of a call.  `trace` lists the tables queried on the session. *)

Pending == [status |-> "pending"]
Returned(v, t) == [status |-> "ok", val |-> v, trace |-> t]
Raised(e, t) == [status |-> "error", err |-> e, trace |-> t]

is_valid(sess) == sess # "None"

assert_validity_skipped(sess, rest) == rest

\* assert_validity raises RuntimeError (Uninitialized Store), else the
\* method goes on with `rest`
assert_validity(sess, rest) ==
  IF ~is_valid(sess) THEN Raised("UninitializedStore", <<>>) ELSE rest

\* self.session.query(...): with session None the attribute lookup fails
session_query(sess, rest) ==
  IF sess = "None" THEN Raised("AttributeError", <<>>) ELSE rest

\* __check_validity__: the default for a falsy input, a scalar wrapped in a
\* tuple, Invalid Selector on the first element outside `valid`
check_validity(l, obj, valid, default) ==
  IF Falsy(l) THEN [ok |-> TRUE, val |-> default]
  ELSE LET s == IF l.tag = "list" THEN l.v ELSE <<l.v>>
           bad == {i \in DOMAIN s : s[i] \notin valid}
       IN IF bad # {}
          THEN [ok |-> FALSE, obj |-> obj,
                k |-> s[CHOOSE i \in bad : \A j \in bad : i <= j]]
          ELSE [ok |-> TRUE, val |-> s]

InvalidSelector(t) == Raised("InvalidSelector", t)

-----------------------------------------------------------------------------
(* Vocabulary lookups *)

protocols(cat, sess) ==
  assert_validity(sess,
    session_query(sess, Returned(cat.protocols, <<"Protocol">>)))

protocol_names(cat, sess) ==
  assert_validity(sess, protocols(cat, sess))

has_protocol(cat, sess, name) ==
  assert_validity(sess,
    session_query(sess,
      Returned(name \in Range(cat.protocols), <<"Protocol">>)))

protocol(cat, sess, name) ==
  assert_validity(sess,
    session_query(sess,
      IF name \in Range(cat.protocols)
      THEN Returned(name, <<"Protocol">>)
      ELSE Raised("NoResultFound", <<"Protocol">>)))

AllProtocolPurposes(cat) ==
  UNION {cat.files[f].pps : f \in DOMAIN cat.files}

protocol_purposes(cat, sess) ==
  assert_validity(sess,
    session_query(sess,
      Returned(AllProtocolPurposes(cat), <<"ProtocolPurpose">>)))

subworlds(cat, sess) ==
  assert_validity(sess,
    session_query(sess, Returned(cat.subworlds, <<"Subworld">>)))

subworld_names(cat, sess) ==
  assert_validity(sess, subworlds(cat, sess))

has_subworld(cat, sess, name) ==
  assert_validity(sess,
    session_query(sess,
      Returned(name \in Range(cat.subworlds), <<"Subworld">>)))

has_client_id(cat, sess, id) ==
  assert_validity(sess,
    session_query(sess, Returned(id \in DOMAIN cat.clients, <<"Client">>)))

client(cat, sess, id) ==
  assert_validity(sess,
    session_query(sess,
      IF id \in DOMAIN cat.clients
      THEN Returned(id, <<"Client">>)
      ELSE Raised("NoResultFound", <<"Client">>)))

-----------------------------------------------------------------------------
(* clients and the methods defined through it *)

\* range(1900, 2050) excludes its upper end
FirstBirthYear == 1900
EndBirthYear == 2050
VALID_BIRTHYEARS == FirstBirthYear .. (EndBirthYear - 1)

\* q.order_by(Client.id): the ids of S in ascending order
RECURSIVE order_by_id(_)
order_by_id(S) ==
  IF S = {} THEN <<>>
  ELSE LET m == CHOOSE x \in S : \A y \in S : x <= y
       IN <<m>> \o order_by_id(S \ {m})

WorldClients_any_subworld(cat, subworld, gender, birthyear) ==
  {c \in DOMAIN cat.clients :
     /\ cat.clients[c].sgroup = "world"
     /\ gender # <<>> => cat.clients[c].gender \in Range(gender)
     /\ birthyear # <<>> => cat.clients[c].birthyear \in Range(birthyear)}

\* the world branch of clients (query.py 130-139)
WorldClients(cat, subworld, gender, birthyear) ==
  {c \in DOMAIN cat.clients :
     /\ cat.clients[c].sgroup = "world"
     /\ subworld # <<>> => cat.clients[c].subworld \in Range(subworld)
     /\ gender # <<>> => cat.clients[c].gender \in Range(gender)
     /\ birthyear # <<>> => cat.clients[c].birthyear \in Range(birthyear)}

DevEvalClients_any_group(cat, groups, gender, birthyear) ==
  {c \in DOMAIN cat.clients :
     /\ cat.clients[c].sgroup # "world"
     /\ gender # <<>> => cat.clients[c].gender \in Range(gender)
     /\ birthyear # <<>> => cat.clients[c].birthyear \in Range(birthyear)}

\* the dev/eval branch of clients (query.py 140-147)
DevEvalClients(cat, groups, gender, birthyear) ==
  {c \in DOMAIN cat.clients :
     /\ cat.clients[c].sgroup # "world"
     /\ cat.clients[c].sgroup \in Range(groups)
     /\ gender # <<>> => cat.clients[c].gender \in Range(gender)
     /\ birthyear # <<>> => cat.clients[c].birthyear \in Range(birthyear)}

clients(cat, sess, a_protocol, a_groups, a_subworld, a_gender, a_birthyear) ==
  assert_validity(sess,
    LET pn == protocol_names(cat, sess)
        sn == subworld_names(cat, sess)
    IN IF pn.status = "error" THEN pn
       ELSE IF sn.status = "error" THEN sn
       ELSE
         LET t0 == pn.trace \o sn.trace
             vprotocol == check_validity(a_protocol, "protocol", Range(pn.val), pn.val)
             groups == check_validity(a_groups, "group", Range(group_choices), group_choices)
             subworld == check_validity(a_subworld, "subworld", Range(sn.val), <<>>)
             gender == check_validity(a_gender, "gender", Range(gender_choices), <<>>)
             birthyear == check_validity(a_birthyear, "birthyear", VALID_BIRTHYEARS, <<>>)
         IN IF ~vprotocol.ok \/ ~groups.ok \/ ~subworld.ok \/ ~gender.ok \/ ~birthyear.ok
            THEN InvalidSelector(t0)
            ELSE
              LET inWorld == "world" \in Range(groups.val)
                  inDevEval == "dev" \in Range(groups.val) \/ "eval" \in Range(groups.val)
                  r1 == IF inWorld
                        THEN order_by_id(WorldClients(cat, subworld.val, gender.val, birthyear.val))
                        ELSE <<>>
                  r2 == IF inDevEval
                        THEN order_by_id(DevEvalClients(cat, groups.val, gender.val, birthyear.val))
                        ELSE <<>>
                  t1 == IF inWorld THEN <<"Client">> ELSE <<>>
                  t2 == IF inDevEval THEN <<"Client">> ELSE <<>>
              IN Returned(r1 \o r2, t0 \o t1 \o t2))

\* T-Norm and Z-Norm clients: the onethird world subset
tclients(cat, sess, a_protocol, a_groups) ==
  clients(cat, sess, a_protocol, PyStr("world"), PyStr("onethird"), PyNone, PyNone)

zclients(cat, sess, a_protocol, a_groups) ==
  clients(cat, sess, a_protocol, PyStr("world"), PyStr("onethird"), PyNone, PyNone)

models(cat, sess, a_protocol, a_groups) ==
  clients(cat, sess, a_protocol, a_groups, PyNone, PyNone, PyNone)

tmodels(cat, sess, a_protocol, a_groups) ==
  tclients(cat, sess, a_protocol, a_groups)

-----------------------------------------------------------------------------
(* objects, tobjects, zobjects *)

VALID_CLASSES == <<"client", "impostor">>

\* position of a camera label in the ascending order of the labels
CameraRank(c) == CHOOSE i \in DOMAIN Cameras : Cameras[i] = c

\* the order of q.order_by(File.client_id, File.camera, File.distance, File.id)
FileBefore(x, y) ==
  LET kx == <<x.client_id, CameraRank(x.camera), x.distance, x.id>>
      ky == <<y.client_id, CameraRank(y.camera), y.distance, y.id>>
  IN \E i \in 1..4 : kx[i] < ky[i] /\ \A j \in 1..(i - 1) : kx[j] = ky[j]

\* list(q) of a File query: the ids of the selected files in that order
RECURSIVE order_by_file(_, _)
order_by_file(cat, S) ==
  IF S = {} THEN <<>>
  ELSE LET m == CHOOSE x \in S :
                  \A y \in S \ {x} : FileBefore(cat.files[x], cat.files[y])
       IN <<m>> \o order_by_file(cat, S \ {m})

\* model_ids: None is no filter, a non-iterable is a one-element tuple
normalize_model_ids(m) ==
  IF m.tag = "None" THEN <<>>
  ELSE IF m.tag = "list" THEN m.v
  ELSE <<m.v>>

\* File joined to Client through File.client_id
Owner(cat, f) == cat.clients[cat.files[f].client_id]

\* the world branch of objects (query.py 301-309)
WorldFiles(cat, vprotocol, subworld, model_ids) ==
  {f \in DOMAIN cat.files :
     /\ cat.files[f].client_id \in DOMAIN cat.clients
     /\ \E pp \in cat.files[f].pps :
          pp.protocol \in Range(vprotocol) /\ pp.sgroup = "world"
     /\ subworld # <<>> => Owner(cat, f).subworld \in Range(subworld)
     /\ model_ids # <<>> => Owner(cat, f).id \in Range(model_ids)}

\* the enrol branch and the probe/client branch (query.py 312-327)
PurposeFiles(cat, vprotocol, groups, purpose, model_ids) ==
  {f \in DOMAIN cat.files :
     /\ cat.files[f].client_id \in DOMAIN cat.clients
     /\ \E pp \in cat.files[f].pps :
          /\ pp.protocol \in Range(vprotocol)
          /\ pp.sgroup \in Range(groups)
          /\ pp.purpose = purpose
     /\ model_ids # <<>> => Owner(cat, f).id \in Range(model_ids)}

ImpostorFiles_exclude_any(cat, vprotocol, groups, model_ids) ==
  {f \in DOMAIN cat.files :
     /\ cat.files[f].client_id \in DOMAIN cat.clients
     /\ \E pp \in cat.files[f].pps :
          /\ pp.protocol \in Range(vprotocol)
          /\ pp.sgroup \in Range(groups)
          /\ pp.purpose = "probe"
     /\ model_ids # <<>> => cat.files[f].client_id \notin Range(model_ids)}

ImpostorFiles_no_exclusion(cat, vprotocol, groups, model_ids) ==
  {f \in DOMAIN cat.files :
     /\ cat.files[f].client_id \in DOMAIN cat.clients
     /\ \E pp \in cat.files[f].pps :
          /\ pp.protocol \in Range(vprotocol)
          /\ pp.sgroup \in Range(groups)
          /\ pp.purpose = "probe"}

\* the probe/impostor branch (query.py 329-335)
ImpostorFiles(cat, vprotocol, groups, model_ids) ==
  {f \in DOMAIN cat.files :
     /\ cat.files[f].client_id \in DOMAIN cat.clients
     /\ \E pp \in cat.files[f].pps :
          /\ pp.protocol \in Range(vprotocol)
          /\ pp.sgroup \in Range(groups)
          /\ pp.purpose = "probe"
     /\ Len(model_ids) = 1 => cat.files[f].client_id \notin Range(model_ids)}

branches_world_by_purpose(groups, purposes, classes) ==
  LET inDevEval == "dev" \in Range(groups) \/ "eval" \in Range(groups)
  IN {b \in {"world"} : "world" \in Range(groups) /\ "train" \in Range(purposes)}
     \cup {b \in {"enrol"} : inDevEval /\ "enrol" \in Range(purposes)}
     \cup {b \in {"client"} :
              inDevEval /\ "probe" \in Range(purposes) /\ "client" \in Range(classes)}
     \cup {b \in {"impostor"} :
              inDevEval /\ "probe" \in Range(purposes) /\ "impostor" \in Range(classes)}

\* which of the four branches of objects run (the conditions of query.py
\* 301, 311-312, 320-321 and 329)
branches(groups, purposes, classes) ==
  LET inDevEval == "dev" \in Range(groups) \/ "eval" \in Range(groups)
  IN {b \in {"world"} : "world" \in Range(groups)}
     \cup {b \in {"enrol"} : inDevEval /\ "enrol" \in Range(purposes)}
     \cup {b \in {"client"} :
              inDevEval /\ "probe" \in Range(purposes) /\ "client" \in Range(classes)}
     \cup {b \in {"impostor"} :
              inDevEval /\ "probe" \in Range(purposes) /\ "impostor" \in Range(classes)}

\* a list as a bag: the list up to the order of its elements
RECURSIVE SeqToBag(_)
SeqToBag(s) ==
  IF s = <<>> THEN EmptyBag ELSE SeqToBag(Tail(s)) (+) SetToBag({Head(s)})

list_without_set(retval) == SeqToBag(retval)

\* list(set(retval)): every element of retval once, in no particular order
list_of_set(retval) == SetToBag(Range(retval))

objects(cat, sess, a_protocol, a_purposes, a_model_ids, a_groups, a_classes, a_subworld) ==
  assert_validity(sess,
    LET pn == protocol_names(cat, sess)
        sn == subworld_names(cat, sess)
    IN IF pn.status = "error" THEN pn
       ELSE IF sn.status = "error" THEN sn
       ELSE
         LET t0 == pn.trace \o sn.trace
             vprotocol == check_validity(a_protocol, "protocol", Range(pn.val), pn.val)
             purposes == check_validity(a_purposes, "purpose", Range(purpose_choices), purpose_choices)
             groups == check_validity(a_groups, "group", Range(group_choices), group_choices)
             classes == check_validity(a_classes, "class", Range(VALID_CLASSES), VALID_CLASSES)
             subworld == check_validity(a_subworld, "subworld", Range(sn.val), <<>>)
             model_ids == normalize_model_ids(a_model_ids)
         IN IF ~vprotocol.ok \/ ~purposes.ok \/ ~groups.ok \/ ~classes.ok \/ ~subworld.ok
            THEN InvalidSelector(t0)
            ELSE
              LET run == branches(groups.val, purposes.val, classes.val)
                  r1 == IF "world" \in run
                        THEN order_by_file(cat, WorldFiles(cat, vprotocol.val, subworld.val, model_ids))
                        ELSE <<>>
                  r2 == IF "enrol" \in run
                        THEN order_by_file(cat, PurposeFiles(cat, vprotocol.val, groups.val, "enrol", model_ids))
                        ELSE <<>>
                  r3 == IF "client" \in run
                        THEN order_by_file(cat, PurposeFiles(cat, vprotocol.val, groups.val, "probe", model_ids))
                        ELSE <<>>
                  r4 == IF "impostor" \in run
                        THEN order_by_file(cat, ImpostorFiles(cat, vprotocol.val, groups.val, model_ids))
                        ELSE <<>>
                  t1 == [i \in 1..Cardinality(run) |-> "File"]
              IN Returned(list_of_set(r1 \o r2 \o r3 \o r4), t0 \o t1))

\* the cohort query shared by tobjects and zobjects (query.py 380-386 and
\* 428-434): world files of the given subworld taken by the given cameras
CohortFiles(cat, vprotocol, subworld, validcam, model_ids) ==
  {f \in DOMAIN cat.files :
     /\ cat.files[f].client_id \in DOMAIN cat.clients
     /\ Owner(cat, f).subworld \in Range(subworld)
     /\ \E pp \in cat.files[f].pps :
          pp.protocol \in Range(vprotocol) /\ pp.sgroup = "world"
     /\ cat.files[f].camera \in Range(validcam)
     /\ model_ids # <<>> => Owner(cat, f).id \in Range(model_ids)}

cohort_objects(cat, sess, a_protocol, a_model_ids, a_groups, validcam) ==
  LET pn == protocol_names(cat, sess)
  IN IF pn.status = "error" THEN pn
     ELSE
       LET vprotocol == check_validity(a_protocol, "protocol", Range(pn.val), pn.val)
           groups == check_validity(a_groups, "group", Range(group_choices), group_choices)
           model_ids == normalize_model_ids(a_model_ids)
       IN IF ~vprotocol.ok \/ ~groups.ok
          THEN InvalidSelector(pn.trace)
          ELSE session_query(sess,
                 Returned(order_by_file(cat,
                            CohortFiles(cat, vprotocol.val, <<"onethird">>, validcam, model_ids)),
                          pn.trace \o <<"File">>))

tobjects(cat, sess, a_protocol, a_model_ids, a_groups) ==
  cohort_objects(cat, sess, a_protocol, a_model_ids, a_groups, <<"frontal">>)

zobjects_without_cam1(cat, sess, a_protocol, a_model_ids, a_groups) ==
  cohort_objects(cat, sess, a_protocol, a_model_ids, a_groups,
                 <<"cam2", "cam3", "cam4", "cam5">>)

zobjects(cat, sess, a_protocol, a_model_ids, a_groups) ==
  cohort_objects(cat, sess, a_protocol, a_model_ids, a_groups,
                 <<"cam1", "cam2", "cam3", "cam4", "cam5">>)

-----------------------------------------------------------------------------
(* paths and reverse *)

\* File.make_path: prefix, the stored stem and suffix concatenated
make_path(file, prefix, suffix) == prefix \o file.path \o suffix

\* one path per id, in the order of ids (repeats included), ids that name
\* no File skipped
RECURSIVE paths_of(_, _, _, _)
paths_of(cat, ids, prefix, suffix) ==
  IF ids = <<>> THEN <<>>
  ELSE (IF Head(ids) \in DOMAIN cat.files
        THEN <<make_path(cat.files[Head(ids)], prefix, suffix)>>
        ELSE <<>>) \o paths_of(cat, Tail(ids), prefix, suffix)

paths(cat, sess, ids, prefix, suffix) ==
  assert_validity(sess,
    session_query(sess,
      Returned(paths_of(cat, ids, prefix, suffix), <<"File">>)))

\* reverse never binds `retval`: with or without elements in `paths`, the
\* first use of the name (retval.extend, or return retval) raises NameError
reverse(cat, sess, ps) ==
  assert_validity(sess,
    session_query(sess, Raised("NameError", <<"File">>)))

-----------------------------------------------------------------------------
(* The object, its construction and connect *)

\* connect: no session when the file is missing, a read-only session else
connect(exists) == IF ~exists THEN "None" ELSE "open"

\* __init__ over a store that is present or not, with a first call drawn
\* from `calls`
InitEngine(cats, exists, calls) ==
  /\ catalogue \in cats
  /\ store_exists \in exists
  /\ session = connect(store_exists)
  /\ ctor_valid = is_valid(session)
  /\ call \in calls
  /\ ret = Pending

Apply(op, outcome) ==
  /\ call.op = op
  /\ ret.status = "pending"
  /\ ret' = outcome
  /\ UNCHANGED <<catalogue, store_exists, session, ctor_valid, call>>

Connect_opens_blindly ==
  /\ session' = "open"
  /\ call' = [op |-> "connect"]
  /\ ret' = Returned(PyNone, <<>>)
  /\ UNCHANGED <<catalogue, store_exists, ctor_valid>>

\* a later call of connect()
Connect ==
  /\ session' = connect(store_exists)
  /\ call' = [op |-> "connect"]
  /\ ret' = Returned(PyNone, <<>>)
  /\ UNCHANGED <<catalogue, store_exists, ctor_valid>>

Clients ==
  Apply("clients", clients(catalogue, session, call.protocol, call.groups,
                           call.subworld, call.gender, call.birthyear))

TClients == Apply("tclients", tclients(catalogue, session, call.protocol, call.groups))

ZClients == Apply("zclients", zclients(catalogue, session, call.protocol, call.groups))

Models == Apply("models", models(catalogue, session, call.protocol, call.groups))

TModels == Apply("tmodels", tmodels(catalogue, session, call.protocol, call.groups))

Objects ==
  Apply("objects", objects(catalogue, session, call.protocol, call.purposes,
                           call.model_ids, call.groups, call.classes, call.subworld))

TObjects ==
  Apply("tobjects", tobjects(catalogue, session, call.protocol, call.model_ids, call.groups))

ZObjects ==
  Apply("zobjects", zobjects(catalogue, session, call.protocol, call.model_ids, call.groups))

Protocols == Apply("protocols", protocols(catalogue, session))

ProtocolNamesCall == Apply("protocol_names", protocol_names(catalogue, session))

HasProtocol == Apply("has_protocol", has_protocol(catalogue, session, call.name))

ProtocolCall == Apply("protocol", protocol(catalogue, session, call.name))

ProtocolPurposes == Apply("protocol_purposes", protocol_purposes(catalogue, session))

Subworlds == Apply("subworlds", subworlds(catalogue, session))

SubworldNamesCall == Apply("subworld_names", subworld_names(catalogue, session))

HasSubworld == Apply("has_subworld", has_subworld(catalogue, session, call.name))

HasClientId == Apply("has_client_id", has_client_id(catalogue, session, call.id))

ClientCall == Apply("client", client(catalogue, session, call.id))

Paths == Apply("paths", paths(catalogue, session, call.ids, call.prefix, call.suffix))

\* reverse, on the paths of a drawn call or on the list paths just returned
Reverse ==
  \/ Apply("reverse", reverse(catalogue, session, call.paths))
  \/ /\ call.op = "paths"
     /\ ret.status = "ok"
     /\ call' = [op |-> "reverse", paths |-> ret.val, of |-> call]
     /\ ret' = reverse(catalogue, session, ret.val)
     /\ UNCHANGED <<catalogue, store_exists, session, ctor_valid>>

-----------------------------------------------------------------------------
(* The calls of the model *)

ProtocolArgs == {PyNone, PyStr("close"), PyList(<<"combined", "close">>)}
PurposeArgs ==
  {PyNone, PyStr("train"), PyStr("enrol"), PyStr("probe"), PyList(<<"enrol", "probe">>)}
GroupArgs ==
  {PyNone, PyStr("world"), PyStr("dev"), PyStr("eval"),
   PyList(<<"dev", "eval">>), PyList(<<"world", "dev">>)}
ClassArgs == {PyNone, PyStr("client"), PyStr("impostor")}
SubworldArgs == {PyNone, PyStr("onethird"), PyStr("twothirds")}
GenderArgs == {PyNone, PyStr("m"), PyList(<<"m", "f">>)}
BirthyearArgs == {PyNone, PyInt(1970), PyList(<<1970, 1971>>)}
ModelIdArgs == {PyNone, PyInt(1), PyList(<<2>>), PyList(<<1, 2>>)}

\* selector values outside the vocabulary, and the empty string
BadProtocolArgs == {PyStr("unknown"), PyList(<<"combined", "unknown">>)}
BadPurposeArgs == {PyStr("world")}
BadGroupArgs == {PyStr("nogroup"), PyList(<<"dev", "nogroup">>)}
BadClassArgs == {PyStr("spoof")}
BadSubworldArgs == {PyStr("half"), PyStr("")}
BadGenderArgs == {PyStr("x")}
BadBirthyearArgs == {PyInt(0), PyInt(1899), PyList(<<1970, 0>>)}

ClientsCall(p, g, s, x, b) ==
  [op |-> "clients", protocol |-> p, groups |-> g, subworld |-> s,
   gender |-> x, birthyear |-> b]

ObjectsCall(p, u, m, g, c, s) ==
  [op |-> "objects", protocol |-> p, purposes |-> u, model_ids |-> m,
   groups |-> g, classes |-> c, subworld |-> s]

\* every combination of valid selectors, and the combinations of an absent,
\* a valid or an invalid value of each selector
ClientsCalls ==
  {ClientsCall(p, g, s, x, b) :
     p \in {PyNone, PyStr("combined")}, g \in GroupArgs, s \in SubworldArgs,
     x \in GenderArgs, b \in BirthyearArgs}
  \cup
  {ClientsCall(p, g, s, x, b) :
     p \in {PyNone} \cup BadProtocolArgs,
     g \in {PyNone, PyStr("dev")} \cup BadGroupArgs,
     s \in {PyNone, PyStr("onethird")} \cup BadSubworldArgs,
     x \in {PyNone, PyStr("f")} \cup BadGenderArgs,
     b \in {PyNone, PyInt(1971)} \cup BadBirthyearArgs}

\* clients(birthyear=y) for the years at the two ends of the accepted range
BoundaryBirthyearCalls ==
  {ClientsCall(PyNone, PyNone, PyNone, PyNone, PyInt(y)) :
     y \in {FirstBirthYear - 1, FirstBirthYear, EndBirthYear - 1,
            EndBirthYear, EndBirthYear + 1}}

ObjectsCalls ==
  {ObjectsCall(p, u, m, g, c, s) :
     p \in ProtocolArgs, u \in PurposeArgs, m \in ModelIdArgs, g \in GroupArgs,
     c \in ClassArgs, s \in {PyNone, PyStr("onethird")}}
  \cup
  {ObjectsCall(p, u, m, g, c, s) :
     p \in {PyNone} \cup BadProtocolArgs,
     u \in {PyNone, PyStr("probe")} \cup BadPurposeArgs,
     m \in {PyNone},
     g \in {PyNone, PyStr("dev")} \cup BadGroupArgs,
     c \in {PyNone, PyStr("client")} \cup BadClassArgs,
     s \in {PyNone} \cup BadSubworldArgs}

CohortCalls ==
  {[op |-> o, protocol |-> p, model_ids |-> m, groups |-> g] :
     o \in {"tobjects", "zobjects"},
     p \in ProtocolArgs \cup BadProtocolArgs, m \in ModelIdArgs,
     g \in {PyNone, PyStr("world")} \cup BadGroupArgs}

ModelsCalls ==
  {[op |-> o, protocol |-> p, groups |-> g] :
     o \in {"models", "tclients", "zclients", "tmodels"},
     p \in {PyNone, PyStr("combined")} \cup BadProtocolArgs,
     g \in GroupArgs \cup BadGroupArgs}

IdLists == {<<>>, <<1>>, <<2, 1>>, <<1, 1>>, <<NFiles, 2>>, <<NFiles + 1, 1>>}
Prefixes == {"", "/data/"}
Suffixes == {"", ".jpg"}

PathsCalls ==
  {[op |-> "paths", ids |-> i, prefix |-> p, suffix |-> x] :
     i \in IdLists, p \in Prefixes, x \in Suffixes}

NoCall == [op |-> "none"]

ReverseCalls ==
  {[op |-> "reverse", paths |-> ps, of |-> NoCall] :
     ps \in {<<>>, <<"stem1">>, <<"stem2", "stem1">>, <<"nostem">>}}

LookupCalls ==
  {[op |-> o] : o \in {"protocols", "protocol_names", "protocol_purposes",
                       "subworlds", "subworld_names"}}
  \cup {[op |-> o, name |-> n] :
          o \in {"has_protocol", "protocol"}, n \in {"combined", "unknown"}}
  \cup {[op |-> "has_subworld", name |-> n] : n \in {"onethird", "half"}}
  \cup {[op |-> o, id |-> i] :
          o \in {"has_client_id", "client"}, i \in {1, NClients + 1}}

-----------------------------------------------------------------------------
(* Specifications *)

\* clients over every catalogue, the store present
InitClients ==
  InitEngine(Catalogues, {TRUE},
             ClientsCalls \cup BoundaryBirthyearCalls \cup ModelsCalls)
NextClients == Clients \/ Models \/ TClients \/ ZClients \/ TModels
SpecClients == InitClients /\ [][NextClients]_vars

\* objects, tobjects and zobjects over every catalogue, the store present
Init == InitEngine(Catalogues, {TRUE}, ObjectsCalls \cup CohortCalls)
Next == Objects \/ TObjects \/ ZObjects
Spec == Init /\ [][Next]_vars

\* paths and reverse over every catalogue, the store present
InitPaths == InitEngine(Catalogues, {TRUE}, PathsCalls \cup ReverseCalls)
NextPaths == Paths \/ Reverse
SpecPaths == InitPaths /\ [][NextPaths]_vars

\* The life of one Database object: the store is created or removed behind
\* it, connect is called again, and the caller makes call after call.
LifeCatalogues ==
  {cat \in Catalogues :
     /\ cat.clients[1].subworld = "onethird"
     /\ cat.clients[2].sgroup = "dev"
     /\ \A c \in ClientIds : c > 2 => cat.clients[c].sgroup = "eval"}

LifeCalls ==
  LookupCalls
  \cup {c \in ClientsCalls :
          /\ c.protocol \in {PyNone, PyStr("unknown")}
          /\ c.groups \in {PyNone, PyStr("dev")}
          /\ c.subworld = PyNone /\ c.gender = PyNone /\ c.birthyear = PyNone}
  \cup {c \in ObjectsCalls :
          /\ c.protocol \in {PyNone, PyStr("unknown")}
          /\ c.groups \in {PyNone, PyStr("dev")}
          /\ c.purposes = PyNone /\ c.classes = PyNone
          /\ c.subworld = PyNone /\ c.model_ids = PyNone}
  \cup {c \in CohortCalls \cup ModelsCalls :
          c.protocol \in {PyNone, PyStr("unknown")} /\ c.groups = PyNone
          /\ (c.op \in {"tobjects", "zobjects"} => c.model_ids = PyNone)}
  \cup {c \in PathsCalls : c.ids = <<2, 1>> /\ c.prefix = "/data/" /\ c.suffix = ".jpg"}
  \cup {c \in ReverseCalls : c.paths \in {<<>>, <<"stem1">>}}

StoreCreated ==
  /\ ~store_exists
  /\ store_exists' = TRUE
  /\ UNCHANGED <<catalogue, session, ctor_valid, call, ret>>

StoreRemoved ==
  /\ store_exists
  /\ store_exists' = FALSE
  /\ UNCHANGED <<catalogue, session, ctor_valid, call, ret>>

\* the caller goes on to its next call
NewCall ==
  /\ ret.status # "pending"
  /\ call' \in LifeCalls
  /\ ret' = Pending
  /\ UNCHANGED <<catalogue, store_exists, session, ctor_valid>>

InitLife == InitEngine(LifeCatalogues, BOOLEAN, LifeCalls)

NextLife ==
  \/ Connect \/ StoreCreated \/ StoreRemoved \/ NewCall
  \/ Clients \/ Models \/ TClients \/ ZClients \/ TModels
  \/ Objects \/ TObjects \/ ZObjects
  \/ Protocols \/ ProtocolNamesCall \/ HasProtocol \/ ProtocolCall
  \/ ProtocolPurposes \/ Subworlds \/ SubworldNamesCall \/ HasSubworld
  \/ HasClientId \/ ClientCall
  \/ Paths \/ Reverse

SpecLife == InitLife /\ [][NextLife]_vars

-----------------------------------------------------------------------------
(* Vocabulary of the claims *)

\* the values a supplied argument asks for
Requested(a) == IF a.tag = "list" THEN Range(a.v) ELSE {a.v}

\* absent, or empty in the sense of the validator's contract
AbsentOrEmpty(a) ==
  \/ a.tag = "None"
  \/ a.tag = "str" /\ a.v = ""
  \/ a.tag = "list" /\ a.v = <<>>

\* a valid selector: absent, or supplied with values of the vocabulary only
ValidArg(a, vocab) == a.tag = "None" \/ (~AbsentOrEmpty(a) /\ Requested(a) \subseteq vocab)

\* a supplied selector with a value outside the vocabulary
OutsideVocabulary(a, vocab) == ~AbsentOrEmpty(a) /\ ~(Requested(a) \subseteq vocab)

\* the values asked for, all of the vocabulary when the selector is absent
Asked(a, vocab) == IF a.tag = "None" THEN vocab ELSE Requested(a)

BirthYears == FirstBirthYear .. EndBirthYear

ValidClientsCall ==
  /\ call.op = "clients"
  /\ ValidArg(call.protocol, Range(catalogue.protocols))
  /\ ValidArg(call.groups, Range(group_choices))
  /\ ValidArg(call.subworld, Range(catalogue.subworlds))
  /\ ValidArg(call.gender, Range(gender_choices))
  /\ ValidArg(call.birthyear, VALID_BIRTHYEARS)

ValidObjectsCall ==
  /\ call.op = "objects"
  /\ ValidArg(call.protocol, Range(catalogue.protocols))
  /\ ValidArg(call.purposes, Range(purpose_choices))
  /\ ValidArg(call.groups, Range(group_choices))
  /\ ValidArg(call.classes, Range(VALID_CLASSES))
  /\ ValidArg(call.subworld, Range(catalogue.subworlds))

Done == ret.status # "pending"

\* the probe Files of the catalogue under protocols P and groups G
ProbeFilesOf(P, G) ==
  {f \in DOMAIN catalogue.files :
     \E pp \in catalogue.files[f].pps :
       pp.protocol \in P /\ pp.sgroup \in G /\ pp.purpose = "probe"}

ResultFiles == BagToSet(ret.val)

-----------------------------------------------------------------------------
(* C1 *)

\* C1: the list objects returns holds no File more than once, whichever of
\* the four branches contributed it.
C1_NoDuplicateFiles ==
  (call.op = "objects" /\ ret.status = "ok")
    => \A f \in ResultFiles : CopiesIn(f, ret.val) = 1

\* a probe File of a dev client selected by the client branch and by the
\* impostor branch of one call
C1_Witness ==
  /\ ValidObjectsCall /\ ret.status = "ok"
  /\ call.purposes = PyStr("probe") /\ call.classes = PyNone
  /\ call.groups = PyStr("dev") /\ call.model_ids = PyNone
  /\ ResultFiles # {}
  /\ ResultFiles \subseteq ProbeFilesOf(Asked(call.protocol, Range(ProtocolNames)), {"dev"})

-----------------------------------------------------------------------------
(* C2 *)

ProbeImpostorCall ==
  /\ ValidObjectsCall /\ ret.status = "ok"
  /\ call.purposes = PyStr("probe") /\ call.classes = PyStr("impostor")

ImpostorContract ==
  LET m == normalize_model_ids(call.model_ids)
  IN IF Len(m) = 1
     THEN \A f \in ResultFiles : catalogue.files[f].client_id # m[1]
     ELSE ResultFiles = ProbeFilesOf(Asked(call.protocol, Range(ProtocolNames)),
                                     Asked(call.groups, Range(group_choices)))

\* C2 as stated: for any groups, a probe/impostor call with one model id m
\* returns no File of client m, and with none or several model ids returns
\* exactly the probe Files of the requested protocols and groups.
C2_ImpostorAnyGroups == ProbeImpostorCall => ImpostorContract

\* C2 amended: the same, for calls whose groups are among dev and eval; with
\* world among the groups the world branch adds the world Files (those of
\* client m when model ids are given).
C2_ImpostorDevEval ==
  (ProbeImpostorCall /\ call.groups.tag # "None" /\ "world" \notin Requested(call.groups))
    => ImpostorContract

C2_Witness ==
  /\ ProbeImpostorCall
  /\ call.groups = PyStr("dev") /\ call.model_ids = PyInt(1)
  /\ catalogue.clients[1].sgroup = "dev"
  /\ ResultFiles # {}
  /\ ResultFiles # ProbeFilesOf(Asked(call.protocol, Range(ProtocolNames)), {"dev"})

-----------------------------------------------------------------------------
(* C3 *)

ReturnedClients == {catalogue.clients[ret.val[i]] : i \in DOMAIN ret.val}

\* C3 as stated: every Client clients returns is of a requested group, of
\* the requested subworld when one is supplied, of a requested gender and
\* of a requested birth year.
C3_EveryCriterion ==
  (ValidClientsCall /\ ret.status = "ok") =>
    \A c \in ReturnedClients :
      /\ c.sgroup \in Asked(call.groups, Range(group_choices))
      /\ call.subworld.tag # "None" => c.subworld \in Requested(call.subworld)
      /\ call.gender.tag # "None" => c.gender \in Requested(call.gender)
      /\ call.birthyear.tag # "None" => c.birthyear \in Requested(call.birthyear)

\* C3 amended: the subworld criterion binds the world Clients only; a dev or
\* eval Client of a requested group is returned whatever subworld is asked.
C3_SubworldForWorldOnly ==
  (ValidClientsCall /\ ret.status = "ok") =>
    \A c \in ReturnedClients :
      /\ c.sgroup \in Asked(call.groups, Range(group_choices))
      /\ (call.subworld.tag # "None" /\ c.sgroup = "world")
           => c.subworld \in Requested(call.subworld)
      /\ call.gender.tag # "None" => c.gender \in Requested(call.gender)
      /\ call.birthyear.tag # "None" => c.birthyear \in Requested(call.birthyear)

C3_Witness ==
  /\ ValidClientsCall /\ ret.status = "ok"
  /\ call.groups = PyList(<<"world", "dev">>)
  /\ call.subworld = PyStr("onethird")
  /\ call.gender = PyList(<<"m", "f">>)
  /\ call.birthyear = PyList(<<1970, 1971>>)
  /\ \E c, d \in ReturnedClients : c.sgroup = "world" /\ d.sgroup = "dev"

-----------------------------------------------------------------------------
(* C4 *)

WorldSplitCall ==
  /\ ValidClientsCall /\ ret.status = "ok"
  /\ call.groups = PyStr("world") /\ call.subworld = PyStr("onethird")

TwoThirds ==
  clients(catalogue, session, call.protocol, PyStr("world"), PyStr("twothirds"),
          call.gender, call.birthyear)

WholeWorld ==
  clients(catalogue, session, call.protocol, PyStr("world"), PyNone,
          call.gender, call.birthyear)

\* C4: the onethird and the twothirds world clients share no Client, and
\* together they are exactly the world clients.
C4_SubworldsSplitWorld ==
  WorldSplitCall =>
    /\ TwoThirds.status = "ok" /\ WholeWorld.status = "ok"
    /\ Range(ret.val) \cap Range(TwoThirds.val) = {}
    /\ Range(ret.val) \cup Range(TwoThirds.val) = Range(WholeWorld.val)

C4_Witness ==
  /\ WorldSplitCall
  /\ call.gender = PyNone /\ call.birthyear = PyNone
  /\ ret.val # <<>> /\ TwoThirds.val # <<>>

-----------------------------------------------------------------------------
(* C5 *)

SomeSelectorOutside ==
  \/ /\ call.op = "clients"
     /\ \/ OutsideVocabulary(call.protocol, Range(catalogue.protocols))
        \/ OutsideVocabulary(call.groups, Range(group_choices))
        \/ OutsideVocabulary(call.subworld, Range(catalogue.subworlds))
        \/ OutsideVocabulary(call.gender, Range(gender_choices))
        \/ OutsideVocabulary(call.birthyear, BirthYears)
  \/ /\ call.op = "objects"
     /\ \/ OutsideVocabulary(call.protocol, Range(catalogue.protocols))
        \/ OutsideVocabulary(call.purposes, Range(purpose_choices))
        \/ OutsideVocabulary(call.groups, Range(group_choices))
        \/ OutsideVocabulary(call.classes, Range(VALID_CLASSES))
        \/ OutsideVocabulary(call.subworld, Range(catalogue.subworlds))

\* C5: on a valid Engine, a clients or objects call with a selector value
\* outside the vocabulary fails with Invalid Selector, having run no File
\* or Client query.
C5_InvalidSelectorRaised ==
  (Done /\ is_valid(session) /\ SomeSelectorOutside) =>
    /\ ret.status = "error" /\ ret.err = "InvalidSelector"
    /\ "File" \notin Range(ret.trace) /\ "Client" \notin Range(ret.trace)

-----------------------------------------------------------------------------
(* C6 *)

\* C6: reverse applied to the list paths returned for ids that are all in
\* the store, with a non-empty prefix and suffix, returns those ids.
C6_ReverseOfPaths ==
  (/\ call.op = "reverse" /\ call.of.op = "paths"
   /\ is_valid(session)
   /\ call.of.ids # <<>>
   /\ Range(call.of.ids) \subseteq DOMAIN catalogue.files
   /\ call.of.prefix # "" /\ call.of.suffix # "")
    => (ret.status = "ok" /\ ret.val = call.of.ids)

-----------------------------------------------------------------------------
(* C7 *)

QueryOps ==
  {"subworlds", "subworld_names", "has_subworld", "clients", "tclients",
   "zclients", "models", "tmodels", "has_client_id", "client", "objects",
   "tobjects", "zobjects", "protocols", "protocol_names", "has_protocol",
   "protocol", "protocol_purposes", "paths", "reverse"}

FailedUninitialized ==
  ret.status = "error" /\ ret.err = "UninitializedStore" /\ ret.trace = <<>>

\* C7: on an Engine without a session every operation reading the catalogue
\* fails with Uninitialized Store, no query issued: it returns nothing and
\* raises no other error.
C7_InvalidEngineFailsFast ==
  (Done /\ call.op \in QueryOps /\ ~is_valid(session)) => FailedUninitialized

C7_Witness ==
  /\ Done /\ ~is_valid(session)
  /\ call.op = "tobjects" /\ call.protocol = PyStr("unknown")
  /\ FailedUninitialized

-----------------------------------------------------------------------------
(* C8 *)

\* C8 as stated: an Engine constructed without its store is invalid ever
\* after, and its queries keep failing with Uninitialized Store.
C8_InvalidForever ==
  ~ctor_valid =>
    /\ ~is_valid(session)
    /\ (Done /\ call.op \in QueryOps) => FailedUninitialized

\* C8 amended: an invalid Engine stays invalid, its queries failing with
\* Uninitialized Store, through every step but a connect() called while the
\* store is present; that call gives it a session.
C8_InvalidUntilReconnect ==
  [][~is_valid(session) =>
       IF Connect /\ store_exists
       THEN is_valid(session')
       ELSE /\ ~is_valid(session')
            /\ (ret'.status # "pending" /\ call'.op \in QueryOps)
                 => (ret'.status = "error" /\ ret'.err = "UninitializedStore")]_vars

C8_Witness ==
  /\ ~ctor_valid /\ store_exists /\ ~is_valid(session)
  /\ call.op = "objects" /\ FailedUninitialized

-----------------------------------------------------------------------------
(* C9 *)

SingleModelProbeCall ==
  /\ ValidObjectsCall /\ ret.status = "ok"
  /\ call.purposes = PyStr("probe") /\ call.classes = PyStr("client")
  /\ call.groups \in {PyStr("dev"), PyStr("eval")}
  /\ Len(normalize_model_ids(call.model_ids)) = 1

ImpostorSide ==
  objects(catalogue, session, call.protocol, PyStr("probe"), call.model_ids,
          call.groups, PyStr("impostor"), call.subworld)

AllProbes ==
  objects(catalogue, session, call.protocol, PyStr("probe"), PyNone,
          call.groups, PyNone, call.subworld)

\* C9: for one model id and one of the groups dev and eval, the client
\* probes and the impostor probes share no File and together are the
\* probes of that protocol and group.
C9_ClientImpostorSplit ==
  SingleModelProbeCall =>
    /\ ImpostorSide.status = "ok" /\ AllProbes.status = "ok"
    /\ ResultFiles \cap BagToSet(ImpostorSide.val) = {}
    /\ ResultFiles \cup BagToSet(ImpostorSide.val) = BagToSet(AllProbes.val)

C9_Witness ==
  /\ SingleModelProbeCall
  /\ ResultFiles # {} /\ BagToSet(ImpostorSide.val) # {}

-----------------------------------------------------------------------------
(* C10 *)

WorldOnlyCall ==
  /\ ValidObjectsCall /\ ret.status = "ok"
  /\ call.groups = PyStr("world")

WithoutPurposes ==
  objects(catalogue, session, call.protocol, PyNone, call.model_ids,
          call.groups, call.classes, call.subworld)

\* C10: with groups exactly 'world', objects returns the same Files
\* whatever valid purposes are given.
C10_WorldIgnoresPurposes ==
  WorldOnlyCall =>
    /\ WithoutPurposes.status = "ok"
    /\ ResultFiles = BagToSet(WithoutPurposes.val)

C10_Witness ==
  /\ WorldOnlyCall
  /\ call.purposes = PyStr("probe")
  /\ call.model_ids = PyNone
  /\ ResultFiles # {}

-----------------------------------------------------------------------------
(* C11 *)

TNormCall ==
  /\ call.op = "tobjects" /\ ret.status = "ok"
  /\ ValidArg(call.protocol, Range(catalogue.protocols))
  /\ ValidArg(call.groups, Range(group_choices))

ZNormSide ==
  zobjects(catalogue, session, call.protocol, call.model_ids, call.groups)

WorldOneThird ==
  objects(catalogue, session, call.protocol, PyNone, call.model_ids,
          PyStr("world"), PyNone, PyStr("onethird"))

\* C11: for the same protocols and model ids, tobjects and zobjects share no
\* File and together return exactly the Files of
\* objects(protocol, groups='world', subworld='onethird', model_ids).
C11_CohortsCoverOneThird ==
  TNormCall =>
    /\ ZNormSide.status = "ok" /\ WorldOneThird.status = "ok"
    /\ Range(ret.val) \cap Range(ZNormSide.val) = {}
    /\ Range(ret.val) \cup Range(ZNormSide.val) = BagToSet(WorldOneThird.val)

C11_Witness ==
  /\ TNormCall
  /\ ret.val # <<>> /\ ZNormSide.val # <<>>

-----------------------------------------------------------------------------
(* C12 *)

OneBirthyearCall ==
  /\ call.op = "clients" /\ Done /\ is_valid(session)
  /\ call.birthyear.tag = "int"
  /\ ValidArg(call.protocol, Range(catalogue.protocols))
  /\ ValidArg(call.groups, Range(group_choices))
  /\ ValidArg(call.subworld, Range(catalogue.subworlds))
  /\ ValidArg(call.gender, Range(gender_choices))

\* C12: clients(birthyear=y) accepts every integer y of 1900..2050, both
\* ends included, and fails with Invalid Selector for every other y.
C12_BirthyearRange ==
  OneBirthyearCall =>
    IF call.birthyear.v \in BirthYears
    THEN ret.status = "ok"
    ELSE ret.status = "error" /\ ret.err = "InvalidSelector"

====
